---- MODULE Spec2Model ----
(***************************************************************************)
(* Control plane of the agent runtime (src/runtime/kernel.py): the         *)
(* process-wide component registry, the setup / cleanup handlers, agent    *)
(* submission and execution-status polling; and the backend resolution of  *)
(* the LLM adapter (src/aios/llm_core/adapter.py).                         *)
(*                                                                         *)
(* Every handler is an `async def` without a single await in its body, so  *)
(* the event loop runs each handler to completion before it starts the     *)
(* next one: one handler is one atomic action.  Requests that are in       *)
(* flight at the same time are served one after the other, in any order.   *)
(***************************************************************************)
EXTENDS Integers, Sequences, FiniteSets, TLC

\* ---------------------------------------------------------------- bounds
\* Instances the collaborators' constructors build in total.
MaxInstances == 6
\* Executions the factories accept in total.
MaxExec == 1
\* Requests that may be in flight at the same time.
MaxClients == 2
\* Characters of a model name, the listed example names apart.
MaxNameLen == 2

\* ------------------------------------------------------------- constants
\* Python's None; every component handle is a truthy object (a positive
\* instance number, unique within its slot).
None == 0

\* Keys of the registry literal, kernel.py:40-46.
RegistryKeys == {"llm", "storage", "memory", "tool", "scheduler"}

\* Exceptions an execution may end with: type name and str(e).
Exceptions ==
  { [type |-> "RuntimeError", msg |-> "boom"],
    [type |-> "ValueError",   msg |-> "bad input"] }

\* A collaborator call either returns (NoExc) or raises.
NoExc == [type |-> "", msg |-> ""]
Outcomes == {NoExc, [type |-> "RuntimeError", msg |-> "boom"]}

\* Values a finished execution may carry; NoResult stands for None where
\* a result is expected.
Results == {"r1", "r2"}
NoResult == "None"

Clients == 1..MaxClients

\* No request of that client is in flight.
NoReq == [op |-> "", rival |-> FALSE]

\* ----------------------------------------------------------------- state
VARIABLES
  active_components,  \* the registry: key -> None or handle
  made,               \* slot -> number of instances constructed so far
  scheduler_state,    \* scheduler instance -> "created" | "started" | "stopped"
  execs,              \* execution id + 1 -> record kept by the factory
  response,           \* what the last handler returned or raised
  inflight,           \* client -> the request it has in flight
  adapter             \* an LLMAdapter under construction: arguments, model

vars ==
  <<active_components, made, scheduler_state, execs, response, inflight,
    adapter>>

\* Python truthiness of a registry value.
Truthy(h) == h # None

\* active_components[key] = value, adding the key when it is absent.
SetItem(d, key, value) ==
  [k \in DOMAIN d \cup {key} |-> IF k = key THEN value ELSE d[k]]

\* ', '.join(names)
RECURSIVE Join(_, _)
Join(names, sep) ==
  IF names = <<>> THEN ""
  ELSE IF Len(names) = 1 THEN names[1]
  ELSE names[1] \o sep \o Join(Tail(names), sep)

\* [comp for comp in names if not d[comp]], order preserved
RECURSIVE Inactive(_, _)
Inactive(names, d) ==
  IF names = <<>> THEN <<>>
  ELSE (IF ~Truthy(d[names[1]]) THEN <<names[1]>> ELSE <<>>)
       \o Inactive(Tail(names), d)

\* A handler's return value: HTTP 200 with a JSON body.
Return(op, body, calls) ==
  [op |-> op, code |-> 200, detail |-> "", body |-> body, calls |-> calls]

\* raise HTTPException(status_code, detail)
HTTPException(op, status_code, detail, calls) ==
  [op |-> op, code |-> status_code, detail |-> detail, body |-> <<>>,
   calls |-> calls]

Success(message) == [status |-> "success", message |-> message]

\* ---------------------------------------------------- backend resolution
\* A model name is a sequence of characters.
Alphabet == {"g", "G", "p", "x"}

\* str.lower(), on the characters in use.
LowerChar(ch) ==
  CASE ch = "G" -> "g"
    [] ch = "P" -> "p"
    [] ch = "T" -> "t"
    [] OTHER -> ch

Lower(name) == [i \in DOMAIN name |-> LowerChar(name[i])]

\* name.startswith(prefix)
StartsWith(name, prefix) ==
  /\ Len(prefix) <= Len(name)
  /\ SubSeq(name, 1, Len(prefix)) = prefix

\* The registered backends: id -> model class.
BACKEND_REGISTRY ==
  [id \in {"openai", "google", "ollama", "vllm"} |->
     CASE id = "openai" -> "OpenAIBackend"
       [] id = "google" -> "GoogleBackend"
       [] id = "ollama" -> "OllamaBackend"
       [] id = "vllm"   -> "VLLMBackend"]

\* The prefix table, in the iteration order of the dict.
MODEL_PREFIX_MAP ==
  << [prefix |-> <<"g", "p">>, backend |-> "openai"],
     [prefix |-> <<"g">>,      backend |-> "google"],
     [prefix |-> <<"x">>,      backend |-> "ollama"] >>

\* The class used when nothing else is found.
HfNativeLLM == "HfNativeLLM"

\* llm_backend is None.
HintNone == "<None>"

\* Python truthiness of llm_backend.
HintTruthy(llm_backend) == llm_backend # HintNone /\ llm_backend # ""

\* 0 stands for the None that next(..., None) returns.
NoPrefix == 0

\* The indices of the prefixes the lowercased name starts with.
Matching(llm_name) ==
  {i \in DOMAIN MODEL_PREFIX_MAP :
     StartsWith(Lower(llm_name), MODEL_PREFIX_MAP[i].prefix)}

Min(S) == CHOOSE i \in S : \A j \in S : i <= j

Max(S) == CHOOSE i \in S : \A j \in S : i >= j

\* The last matching prefix instead of the first.
LastPrefix(llm_name) ==
  IF Matching(llm_name) = {} THEN NoPrefix ELSE Max(Matching(llm_name))

\* next(prefix for prefix in MODEL_PREFIX_MAP.keys() if ..., None)
FirstPrefix(llm_name) ==
  IF Matching(llm_name) = {} THEN NoPrefix ELSE Min(Matching(llm_name))

\* An LLMAdapter whose __init__ has not run.
Unset == "unset"

\* The resolution that looks at the name first and at llm_backend only
\* when no prefix matches.
ResolveModelNameFirst(llm_name, llm_backend) ==
  IF FirstPrefix(llm_name) # NoPrefix
  THEN [model |->
          BACKEND_REGISTRY[MODEL_PREFIX_MAP[FirstPrefix(llm_name)].backend],
        exc |-> NoExc]
  ELSE IF HintTruthy(llm_backend) /\ llm_backend \in DOMAIN BACKEND_REGISTRY
  THEN [model |-> BACKEND_REGISTRY[llm_backend], exc |-> NoExc]
  ELSE [model |-> HfNativeLLM, exc |-> NoExc]

\* The class __init__ instantiates into self.model, or the KeyError of a
\* lookup in BACKEND_REGISTRY.
ResolveModel(llm_name, llm_backend) ==
  IF HintTruthy(llm_backend) /\ llm_backend \in DOMAIN BACKEND_REGISTRY
  THEN [model |-> BACKEND_REGISTRY[llm_backend], exc |-> NoExc]
  ELSE LET model_prefix == FirstPrefix(llm_name) IN
       IF model_prefix # NoPrefix
            /\ MODEL_PREFIX_MAP[model_prefix].prefix # <<>>
       THEN LET inferred_backend == MODEL_PREFIX_MAP[model_prefix].backend
            IN IF inferred_backend \in DOMAIN BACKEND_REGISTRY
               THEN [model |-> BACKEND_REGISTRY[inferred_backend],
                     exc |-> NoExc]
               ELSE [model |-> Unset,
                     exc |-> [type |-> "KeyError", msg |-> inferred_backend]]
       ELSE [model |-> HfNativeLLM, exc |-> NoExc]

NoAdapter ==
  [llm_name |-> <<>>, llm_backend |-> HintNone, model |-> Unset,
   exc |-> NoExc]

\* --------------------------------------------------------------- initial
Init ==
  /\ active_components = [k \in RegistryKeys |-> None]
  /\ made = [k \in RegistryKeys \cup {"factory"} |-> 0]
  /\ scheduler_state = <<>>
  /\ execs = <<>>
  /\ response = [op |-> "", code |-> 0, detail |-> "", body |-> <<>>,
                 calls |-> <<>>]
  /\ inflight = [c \in Clients |-> NoReq]
  /\ adapter = NoAdapter

\* The handle the next successful constructor call of the slot returns.
NewHandle(slot) == made[slot] + 1

Slots == RegistryKeys \cup {"factory"}

RECURSIVE Total(_, _)
Total(count, keys) ==
  IF keys = {} THEN 0
  ELSE LET k == CHOOSE x \in keys : TRUE
       IN count[k] + Total(count, keys \ {k})

\* A constructor can only return while the instance budget lasts.
CanConstruct(outcome) == outcome = NoExc => Total(made, Slots) < MaxInstances

\* ------------------------------------------------------- setup handlers
\* POST /core/llm/setup
setup_llm(useCore) ==
  /\ CanConstruct(useCore)
  /\ IF useCore = NoExc
     THEN /\ active_components' =
               SetItem(active_components, "llm", NewHandle("llm"))
          /\ made' = [made EXCEPT !["llm"] = @ + 1]
          /\ response' = Return("setup_llm", Success("LLM core initialized"),
                                <<"useCore">>)
     ELSE /\ response' = HTTPException("setup_llm", 500,
               "Failed to initialize LLM core: " \o useCore.msg, <<"useCore">>)
          /\ UNCHANGED <<active_components, made>>
  /\ UNCHANGED <<scheduler_state, execs>>

\* POST /core/storage/setup
setup_storage(useStorageManager) ==
  /\ CanConstruct(useStorageManager)
  /\ IF useStorageManager = NoExc
     THEN /\ active_components' =
               SetItem(active_components, "storage", NewHandle("storage"))
          /\ made' = [made EXCEPT !["storage"] = @ + 1]
          /\ response' = Return("setup_storage",
               Success("Storage manager initialized"), <<"useStorageManager">>)
     ELSE /\ response' = HTTPException("setup_storage", 500,
               "Failed to initialize storage manager: "
                 \o useStorageManager.msg, <<"useStorageManager">>)
          /\ UNCHANGED <<active_components, made>>
  /\ UNCHANGED <<scheduler_state, execs>>

\* The storage key is present, whatever it holds.
StorageKeyPresent == "storage" \in DOMAIN active_components

\* The prerequisite of setup_memory.
StorageReady == Truthy(active_components["storage"])

\* POST /core/memory/setup
setup_memory(useMemoryManager) ==
  IF ~StorageReady
  THEN /\ response' = HTTPException("setup_memory", 400,
            "Storage manager must be initialized first", <<>>)
       /\ UNCHANGED <<active_components, made, scheduler_state, execs>>
  ELSE /\ CanConstruct(useMemoryManager)
       /\ IF useMemoryManager = NoExc
          THEN /\ active_components' =
                    SetItem(active_components, "memory", NewHandle("memory"))
               /\ made' = [made EXCEPT !["memory"] = @ + 1]
               /\ response' = Return("setup_memory",
                    Success("Memory manager initialized"),
                    <<"useMemoryManager">>)
          ELSE /\ response' = HTTPException("setup_memory", 500,
                    "Failed to initialize memory manager: "
                      \o useMemoryManager.msg, <<"useMemoryManager">>)
               /\ UNCHANGED <<active_components, made>>
       /\ UNCHANGED <<scheduler_state, execs>>

\* POST /core/tool/setup
setup_tool_manager(useToolManager) ==
  /\ CanConstruct(useToolManager)
  /\ IF useToolManager = NoExc
     THEN /\ active_components' =
               SetItem(active_components, "tool", NewHandle("tool"))
          /\ made' = [made EXCEPT !["tool"] = @ + 1]
          /\ response' = Return("setup_tool_manager",
               Success("Tool manager initialized"), <<"useToolManager">>)
     ELSE /\ response' =
               [op |-> "setup_tool_manager", code |-> 500, detail |-> "",
                body |-> [error |-> "Failed to initialize tool manager",
                          message |-> useToolManager.msg],
                calls |-> <<"useToolManager">>]
          /\ UNCHANGED <<active_components, made>>
  /\ UNCHANGED <<scheduler_state, execs>>

\* The list without its last entry.
RequiredWithoutTool == <<"llm", "memory", "storage">>

\* The list in the order of the registry literal.
RequiredInRegistryOrder == <<"llm", "storage", "memory", "tool">>

required_components == <<"llm", "memory", "storage", "tool">>

missing_components == Inactive(required_components, active_components)

MissingDetail(missing) ==
  "Missing required components: " \o Join(missing, ", ")

\* POST /core/factory/setup
\* The print of active_components["llm"].model after the assignment reads
\* an attribute every LLMAdapter has (adapter.py:42); it does not raise.
setup_agent_factory(useFactory) ==
  IF missing_components # <<>>
  THEN /\ response' = HTTPException("setup_agent_factory", 400,
            MissingDetail(missing_components), <<>>)
       /\ UNCHANGED <<active_components, made, scheduler_state, execs>>
  ELSE /\ CanConstruct(useFactory)
       /\ IF useFactory = NoExc
          THEN /\ active_components' =
                    SetItem(active_components, "factory", NewHandle("factory"))
               /\ made' = [made EXCEPT !["factory"] = @ + 1]
               /\ response' = Return("setup_agent_factory",
                    Success("Agent factory initialized"), <<"useFactory">>)
          ELSE /\ response' = HTTPException("setup_agent_factory", 500,
                    "Failed to initialize agent factory: " \o useFactory.msg,
                    <<"useFactory">>)
               /\ UNCHANGED <<active_components, made>>
       /\ UNCHANGED <<scheduler_state, execs>>

\* POST /core/scheduler/setup
\* The new scheduler is stored in the registry before it is started.
setup_scheduler(fifo_scheduler, start) ==
  IF missing_components # <<>>
  THEN /\ response' = HTTPException("setup_scheduler", 400,
            MissingDetail(missing_components), <<>>)
       /\ UNCHANGED <<active_components, made, scheduler_state, execs>>
  ELSE /\ CanConstruct(fifo_scheduler)
       /\ IF fifo_scheduler # NoExc
          THEN /\ response' = HTTPException("setup_scheduler", 500,
                    "Failed to initialize scheduler: " \o fifo_scheduler.msg,
                    <<"fifo_scheduler">>)
               /\ UNCHANGED <<active_components, made, scheduler_state>>
          ELSE /\ active_components' =
                    SetItem(active_components, "scheduler",
                            NewHandle("scheduler"))
               /\ made' = [made EXCEPT !["scheduler"] = @ + 1]
               /\ IF start = NoExc
                  THEN /\ scheduler_state' = Append(scheduler_state, "started")
                       /\ response' = Return("setup_scheduler",
                            Success("Scheduler initialized"),
                            <<"fifo_scheduler", "scheduler.start">>)
                  ELSE /\ scheduler_state' = Append(scheduler_state, "created")
                       /\ response' = HTTPException("setup_scheduler", 500,
                            "Failed to initialize scheduler: " \o start.msg,
                            <<"fifo_scheduler", "scheduler.start">>)
       /\ UNCHANGED execs

\* ---------------------------------------------------------------- status
\* The map that calls every key that is present active.
StatusMapOfKeys(d) ==
  [component \in DOMAIN d |-> "active"]

\* The map get_status() builds from a registry.
StatusMap(d) ==
  [component \in DOMAIN d |->
     IF Truthy(d[component]) THEN "active" ELSE "inactive"]

\* GET /core/status
get_status ==
  /\ response' = Return("get_status", StatusMap(active_components), <<>>)
  /\ UNCHANGED <<active_components, made, scheduler_state, execs>>

\* ------------------------------------------------------ execution tracker
AgentIds == {"writer-1"}

FactoryActive ==
  "factory" \in DOMAIN active_components
    /\ Truthy(active_components["factory"])

\* The record a factory keeps of an execution it accepted.
NewExec(factory) ==
  [factory |-> factory, st |-> "running", result |-> NoResult, exc |-> NoExc]

\* The answer with the id after the one the factory returned.
SubmittedOffByOne(agent_id, execution_id) ==
  Return("submit_agent",
    [status |-> "success",
     execution_id |-> execution_id + 1,
     message |-> "Agent " \o agent_id \o " submitted for execution"],
    <<"factory.submit">>)

\* The answer of a successful submission.
Submitted(agent_id, execution_id) ==
  Return("submit_agent",
    [status |-> "success",
     execution_id |-> execution_id,
     message |-> "Agent " \o agent_id \o " submitted for execution"],
    <<"factory.submit">>)

\* POST /agents/submit
\* has_task: the request's agent_config has a "task" key.
submit_agent(agent_id, has_task, submit) ==
  IF ~FactoryActive
  THEN /\ response' = HTTPException("submit_agent", 400,
            "Agent factory not initialized", <<>>)
       /\ UNCHANGED <<active_components, made, scheduler_state, execs>>
  ELSE /\ IF ~has_task
          THEN /\ response' =
                    [op |-> "submit_agent", code |-> 500, detail |-> "",
                     body |-> [error |-> "Failed to submit agent",
                               message |-> "'task'"],
                     calls |-> <<>>]
               /\ UNCHANGED execs
          ELSE IF submit # NoExc
          THEN /\ response' =
                    [op |-> "submit_agent", code |-> 500, detail |-> "",
                     body |-> [error |-> "Failed to submit agent",
                               message |-> submit.msg],
                     calls |-> <<"factory.submit">>]
               /\ UNCHANGED execs
          ELSE /\ Len(execs) < MaxExec
               /\ execs' = Append(execs, NewExec(active_components["factory"]))
               /\ response' = Submitted(agent_id, Len(execs))
       /\ UNCHANGED <<active_components, made, scheduler_state>>

\* What the await primitive of a factory does for an execution id: it
\* returns None while the execution runs, returns the result once it is
\* complete, raises the execution's exception when it failed, and raises
\* for an id the factory never issued.
AwaitExecution(factory, execution_id) ==
  IF execution_id + 1 \in DOMAIN execs
       /\ execs[execution_id + 1].factory = factory
  THEN LET rec == execs[execution_id + 1] IN
       CASE rec.st = "running"   -> [exc |-> NoExc, value |-> NoResult]
         [] rec.st = "completed" -> [exc |-> NoExc, value |-> rec.result]
         [] rec.st = "failed"    -> [exc |-> rec.exc, value |-> NoResult]
  ELSE [exc |-> [type |-> "KeyError", msg |-> "unknown execution"],
        value |-> NoResult]

\* The answer when the outer handler is missing: the exception leaves
\* the handler as a 500.
AgentStatusUncaught(execution_id, awaited) ==
  IF awaited.exc # NoExc
  THEN HTTPException("get_agent_status", 500, awaited.exc.msg,
                     <<"factory.await">>)
  ELSE IF awaited.value = NoResult
  THEN Return("get_agent_status",
         [status |-> "running",
          message |-> "Execution in progress",
          execution_id |-> execution_id,
          debug_info |-> "Agent execution still in progress"],
         <<"factory.await">>)
  ELSE Return("get_agent_status",
         [status |-> "completed",
          result |-> awaited.value,
          execution_id |-> execution_id],
         <<"factory.await">>)

\* The answer when the None test is missing: every returned value counts
\* as a result.
AgentStatusNoNoneTest(execution_id, awaited) ==
  IF awaited.exc # NoExc
  THEN Return("get_agent_status",
         [status |-> "error",
          message |-> awaited.exc.msg,
          error |-> [type |-> awaited.exc.type, message |-> awaited.exc.msg],
          execution_id |-> execution_id],
         <<"factory.await">>)
  ELSE Return("get_agent_status",
         [status |-> "completed",
          result |-> awaited.value,
          execution_id |-> execution_id],
         <<"factory.await">>)

\* The body get_agent_status answers with, from what await_execution did.
AgentStatus(execution_id, awaited) ==
  IF awaited.exc # NoExc
  THEN Return("get_agent_status",
         [status |-> "error",
          message |-> awaited.exc.msg,
          error |-> [type |-> awaited.exc.type, message |-> awaited.exc.msg],
          execution_id |-> execution_id],
         <<"factory.await">>)
  ELSE IF awaited.value = NoResult
  THEN Return("get_agent_status",
         [status |-> "running",
          message |-> "Execution in progress",
          execution_id |-> execution_id,
          debug_info |-> "Agent execution still in progress"],
         <<"factory.await">>)
  ELSE Return("get_agent_status",
         [status |-> "completed",
          result |-> awaited.value,
          execution_id |-> execution_id],
         <<"factory.await">>)

\* GET /agents/{execution_id}/status
get_agent_status(execution_id) ==
  /\ IF ~FactoryActive
     THEN response' = HTTPException("get_agent_status", 400,
            "Agent factory not initialized", <<>>)
     ELSE response' = AgentStatus(execution_id,
            AwaitExecution(active_components["factory"], execution_id))
  /\ UNCHANGED <<active_components, made, scheduler_state, execs>>

\* The factory's workers finish an execution with a result ...
Complete(execution_id, result) ==
  /\ execution_id + 1 \in DOMAIN execs
  /\ execs[execution_id + 1].st = "running"
  /\ execs' = [execs EXCEPT ![execution_id + 1].st = "completed",
                            ![execution_id + 1].result = result]
  /\ UNCHANGED <<active_components, made, scheduler_state, response>>

\* ... or with an exception.
Fail(execution_id, exc) ==
  /\ execution_id + 1 \in DOMAIN execs
  /\ execs[execution_id + 1].st = "running"
  /\ execs' = [execs EXCEPT ![execution_id + 1].st = "failed",
                            ![execution_id + 1].exc = exc]
  /\ UNCHANGED <<active_components, made, scheduler_state, response>>

\* --------------------------------------------------------------- cleanup
\* The loop's slots with storage walked before memory.
CleanupOrderStorageFirst == <<"tool", "storage", "memory", "llm">>

\* The loop's slots walked in dependency order, llm first.
CleanupOrderReversed == <<"llm", "storage", "memory", "tool">>

\* The slots the loop of cleanup_components walks, in its order.
CleanupOrder == <<"tool", "memory", "storage", "llm">>

\* The component has no attribute named cleanup.
NoCleanup == [type |-> "no cleanup attribute", msg |-> ""]

\* What one component does when the loop reaches it.
ReleaseOutcomes == {NoCleanup} \cup Outcomes

\* The loop when its last step also empties the factory slot.
RECURSIVE ReleaseLoopClearingFactory(_, _, _, _)
ReleaseLoopClearingFactory(order, d, calls, release) ==
  IF order = <<>>
  THEN [registry |-> [component \in DOMAIN d |->
                        IF component = "factory" THEN None ELSE d[component]],
        calls |-> calls, exc |-> NoExc]
  ELSE LET component == order[1] IN
       IF ~Truthy(d[component])
       THEN ReleaseLoopClearingFactory(Tail(order), d, calls, release)
       ELSE IF release[component] = NoCleanup
       THEN ReleaseLoopClearingFactory(Tail(order),
              SetItem(d, component, None), calls, release)
       ELSE IF release[component] = NoExc
       THEN ReleaseLoopClearingFactory(Tail(order),
              SetItem(d, component, None),
              Append(calls, component \o ".cleanup"), release)
       ELSE [registry |-> d,
             calls |-> Append(calls, component \o ".cleanup"),
             exc |-> release[component]]

\* The loop over the slots: d is the registry so far, calls the release
\* calls made so far, release[comp] what the component's cleanup() does.
\* The first exception leaves the loop.
RECURSIVE ReleaseLoop(_, _, _, _)
ReleaseLoop(order, d, calls, release) ==
  IF order = <<>>
  THEN [registry |-> d, calls |-> calls, exc |-> NoExc]
  ELSE LET component == order[1] IN
       IF ~Truthy(d[component])
       THEN ReleaseLoop(Tail(order), d, calls, release)
       ELSE IF release[component] = NoCleanup
       THEN ReleaseLoop(Tail(order), SetItem(d, component, None), calls,
                        release)
       ELSE IF release[component] = NoExc
       THEN ReleaseLoop(Tail(order), SetItem(d, component, None),
                        Append(calls, component \o ".cleanup"), release)
       ELSE [registry |-> d,
             calls |-> Append(calls, component \o ".cleanup"),
             exc |-> release[component]]

CleanupFailed(exc, calls) ==
  HTTPException("cleanup_components", 500,
                "Failed to cleanup components: " \o exc.msg, calls)

\* POST /core/cleanup
cleanup_components(stop, release) ==
  /\ IF ~Truthy(active_components["scheduler"])
     THEN \* None.stop() raises AttributeError
          /\ response' = CleanupFailed(
               [type |-> "AttributeError",
                msg |-> "'NoneType' object has no attribute 'stop'"], <<>>)
          /\ UNCHANGED <<active_components, scheduler_state>>
     ELSE IF stop # NoExc
     THEN /\ response' = CleanupFailed(stop, <<"scheduler.stop">>)
          /\ UNCHANGED <<active_components, scheduler_state>>
     ELSE LET loop == ReleaseLoop(CleanupOrder,
                        SetItem(active_components, "scheduler", None),
                        <<"scheduler.stop">>, release)
          IN /\ scheduler_state' =
                  [scheduler_state EXCEPT
                     ![active_components["scheduler"]] = "stopped"]
             /\ active_components' = loop.registry
             /\ response' =
                  IF loop.exc = NoExc
                  THEN Return("cleanup_components",
                         Success("All components cleaned up"), loop.calls)
                  ELSE CleanupFailed(loop.exc, loop.calls)
  /\ UNCHANGED <<made, execs>>

\* ----------------------------------------------------------------- query
QueryTypes == {"llm", "tool", "storage", "memory"}

\* POST /query
\* A query_type other than "llm" falls off the end of the handler, which
\* then returns None: a 200 answer with a null body.
handle_query(query_type, send_request) ==
  /\ IF query_type = "llm"
     THEN IF send_request = NoExc
          THEN response' = Return("handle_query",
                 [response |-> "llm response"], <<"send_request">>)
          ELSE response' = HTTPException("handle_query", 500,
                 send_request.msg, <<"send_request">>)
     ELSE response' = Return("handle_query", <<>>, <<>>)
  /\ UNCHANGED <<active_components, made, scheduler_state, execs>>

\* ----------------------------------------------- requests, one at a time
ExecutionIds == 0..MaxExec

RequestSetupLLM ==
  /\ \E useCore \in Outcomes : setup_llm(useCore)
  /\ UNCHANGED <<inflight, adapter>>

RequestSetupStorage ==
  /\ \E useStorageManager \in Outcomes : setup_storage(useStorageManager)
  /\ UNCHANGED <<inflight, adapter>>

RequestSetupMemory ==
  /\ \E useMemoryManager \in Outcomes : setup_memory(useMemoryManager)
  /\ UNCHANGED <<inflight, adapter>>

RequestSetupTool ==
  /\ \E useToolManager \in Outcomes : setup_tool_manager(useToolManager)
  /\ UNCHANGED <<inflight, adapter>>

RequestSetupFactory ==
  /\ \E useFactory \in Outcomes : setup_agent_factory(useFactory)
  /\ UNCHANGED <<inflight, adapter>>

RequestSetupScheduler ==
  /\ \E fifo_scheduler \in Outcomes, start \in Outcomes :
        setup_scheduler(fifo_scheduler, start)
  /\ UNCHANGED <<inflight, adapter>>

RequestStatus ==
  /\ get_status
  /\ UNCHANGED <<inflight, adapter>>

RequestSubmit ==
  /\ \E agent_id \in AgentIds, has_task \in BOOLEAN, submit \in Outcomes :
        submit_agent(agent_id, has_task, submit)
  /\ UNCHANGED <<inflight, adapter>>

RequestAgentStatus ==
  /\ \E execution_id \in ExecutionIds : get_agent_status(execution_id)
  /\ UNCHANGED <<inflight, adapter>>

\* An outcome is chosen only for the calls cleanup_components reaches:
\* stop() of an active scheduler and, once that has returned, cleanup() of
\* the active components up to the first one that raises.
StopChoices ==
  IF Truthy(active_components["scheduler"]) THEN Outcomes ELSE {NoExc}

ReleaseChoice(component, earlier) ==
  IF /\ Truthy(active_components["scheduler"])
     /\ Truthy(active_components[component])
     /\ \A i \in DOMAIN earlier : earlier[i] \in {NoExc, NoCleanup}
  THEN ReleaseOutcomes
  ELSE {NoCleanup}

RequestCleanup ==
  /\ \E stop \in StopChoices :
       \E tool \in ReleaseChoice("tool", <<stop>>) :
       \E memory \in ReleaseChoice("memory", <<stop, tool>>) :
       \E storage \in ReleaseChoice("storage", <<stop, tool, memory>>) :
       \E llm \in ReleaseChoice("llm", <<stop, tool, memory, storage>>) :
         cleanup_components(stop,
           [tool |-> tool, memory |-> memory, storage |-> storage,
            llm |-> llm])
  /\ UNCHANGED <<inflight, adapter>>

\* send_request is only reached by an llm query.
SendChoices(query_type) ==
  IF query_type = "llm" THEN Outcomes ELSE {NoExc}

RequestQuery ==
  /\ \E query_type \in QueryTypes :
       \E send_request \in SendChoices(query_type) :
         handle_query(query_type, send_request)
  /\ UNCHANGED <<inflight, adapter>>

ExecutionCompletes ==
  /\ \E execution_id \in ExecutionIds, result \in Results :
        Complete(execution_id, result)
  /\ UNCHANGED <<inflight, adapter>>

ExecutionFails ==
  /\ \E execution_id \in ExecutionIds, exc \in Exceptions :
        Fail(execution_id, exc)
  /\ UNCHANGED <<inflight, adapter>>

Next ==
  \/ RequestSetupLLM
  \/ RequestSetupStorage
  \/ RequestSetupMemory
  \/ RequestSetupTool
  \/ RequestSetupFactory
  \/ RequestSetupScheduler
  \/ RequestStatus
  \/ RequestSubmit
  \/ RequestAgentStatus
  \/ RequestCleanup
  \/ RequestQuery
  \/ ExecutionCompletes
  \/ ExecutionFails

Spec == Init /\ [][Next]_vars

\* ------------------------------------------------- overlapping requests
\* Clients send setup requests without waiting for each other; the event
\* loop serves the requests in flight one whole handler at a time, in any
\* order.
SetupOps ==
  {"setup_llm", "setup_storage", "setup_memory", "setup_tool_manager",
   "setup_agent_factory", "setup_scheduler"}

\* The handler the router runs for a request.
Run(op) ==
  \/ op = "setup_llm" /\ \E useCore \in Outcomes : setup_llm(useCore)
  \/ op = "setup_storage"
       /\ \E useStorageManager \in Outcomes : setup_storage(useStorageManager)
  \/ op = "setup_memory"
       /\ \E useMemoryManager \in Outcomes : setup_memory(useMemoryManager)
  \/ op = "setup_tool_manager"
       /\ \E useToolManager \in Outcomes : setup_tool_manager(useToolManager)
  \/ op = "setup_agent_factory"
       /\ \E useFactory \in Outcomes : setup_agent_factory(useFactory)
  \/ op = "setup_scheduler"
       /\ \E fifo_scheduler \in Outcomes, start \in Outcomes :
             setup_scheduler(fifo_scheduler, start)

\* A client's request arrives while the others' are still in flight.
Receive(c, op) ==
  /\ inflight[c] = NoReq
  /\ inflight' = [inflight EXCEPT ![c] = [op |-> op, rival |-> FALSE]]
  /\ UNCHANGED <<active_components, made, scheduler_state, execs, response,
                 adapter>>

\* The event loop runs the handler of one request in flight.  rival marks
\* the requests that were in flight together with a setup of the same slot
\* that has succeeded.
Serve(c) ==
  /\ inflight[c] # NoReq
  /\ Run(inflight[c].op)
  /\ inflight' =
       [d \in Clients |->
          IF d = c THEN NoReq
          ELSE IF /\ inflight[d].op = inflight[c].op
                  /\ inflight[c].op \in SetupOps
                  /\ response'.code = 200
               THEN [inflight[d] EXCEPT !.rival = TRUE]
               ELSE inflight[d]]
  /\ UNCHANGED adapter

ReceiveRequest == \E c \in Clients, op \in SetupOps : Receive(c, op)

ServeRequest == \E c \in Clients : Serve(c)

NextConcurrent ==
  \/ ReceiveRequest
  \/ ServeRequest

SpecConcurrent == Init /\ [][NextConcurrent]_vars

\* ------------------------------------------------- constructing adapters
RECURSIVE NamesOfLength(_)
NamesOfLength(n) ==
  IF n = 0 THEN {<<>>}
  ELSE {Append(name, ch) : name \in NamesOfLength(n - 1), ch \in Alphabet}

ExampleNames == { <<"g", "p", "t", "-", "4">>, <<"G", "P", "T", "-", "4">>,
                  <<"l", "l", "a", "m", "a">> }

ModelNames ==
  ExampleNames \cup UNION {NamesOfLength(n) : n \in 0..MaxNameLen}

\* The values of llm_backend: None, the empty string, registered ids, and
\* ids that are not registered.
Hints == {HintNone, "", "openai", "ollama", "default", "bogus"}

InitAdapter ==
  /\ active_components = [k \in RegistryKeys |-> None]
  /\ made = [k \in RegistryKeys \cup {"factory"} |-> 0]
  /\ scheduler_state = <<>>
  /\ execs = <<>>
  /\ response = [op |-> "", code |-> 0, detail |-> "", body |-> <<>>,
                 calls |-> <<>>]
  /\ inflight = [c \in Clients |-> NoReq]
  /\ \E llm_name \in ModelNames, llm_backend \in Hints :
        adapter = [llm_name |-> llm_name, llm_backend |-> llm_backend,
                   model |-> Unset, exc |-> NoExc]

\* LLMAdapter.__init__
LLMAdapterInit ==
  /\ adapter.model = Unset
  /\ adapter.exc = NoExc
  /\ LET resolved == ResolveModel(adapter.llm_name, adapter.llm_backend)
     IN adapter' = [adapter EXCEPT !.model = resolved.model,
                                   !.exc = resolved.exc]
  /\ UNCHANGED <<active_components, made, scheduler_state, execs, response,
                 inflight>>

NextAdapter == LLMAdapterInit

SpecAdapter == InitAdapter /\ [][NextAdapter]_vars

\* ============================================================ properties
\* The slot holds a component.
Active(slot) ==
  slot \in DOMAIN active_components /\ Truthy(active_components[slot])

\* The same, after the step.
ActiveNext(slot) ==
  slot \in DOMAIN active_components' /\ Truthy(active_components'[slot])

\* C1: setup(memory) in a state where storage is not active always fails
\* with 400, does not call the memory constructor and leaves the registry as
\* it was; with storage active and a constructor that returns, it succeeds
\* and leaves memory active.
C1_MemoryNeedsStorage ==
  [][\A useMemoryManager \in Outcomes :
       (response'.op = "setup_memory" /\ setup_memory(useMemoryManager)) =>
         IF ~Active("storage")
         THEN /\ response'.code = 400
              /\ response'.calls = <<>>
              /\ active_components' = active_components
         ELSE useMemoryManager = NoExc =>
                /\ response'.code = 200
                /\ ActiveNext("memory")]_vars

\* A setup(memory) request was rejected while llm was already set up.
C1_Witness ==
  /\ response.op = "setup_memory"
  /\ response.code = 400
  /\ Active("llm")
  /\ ~Active("storage")
  /\ ~Active("memory")

\* C2: the scheduler and the factory slot go from inactive to active only
\* in a state where llm, memory, storage and tool are all active; a
\* setup(scheduler) or setup(factory) call made while one of the four is
\* inactive fails with 400 and changes no slot.
C2_Prerequisites ==
  {"llm", "memory", "storage", "tool"}

C2_SchedulerNeedsAllFour ==
  [][/\ \A slot \in {"scheduler", "factory"} :
          (~Active(slot) /\ ActiveNext(slot)) =>
             \A needed \in C2_Prerequisites : Active(needed)
     /\ \A op \in {"setup_scheduler", "setup_agent_factory"} :
          (/\ response'.op = op
           /\ \E needed \in C2_Prerequisites : ~Active(needed)
           /\ Run(op)) =>
             /\ response'.code = 400
             /\ active_components' = active_components]_vars

\* A setup(scheduler) request was rejected with three of the four active.
C2_Witness ==
  /\ response.op = "setup_scheduler"
  /\ response.code = 400
  /\ Active("llm") /\ Active("storage") /\ Active("memory")
  /\ ~Active("tool")

\* C3: after cleanup() has been invoked, whether or not a stop or release
\* call failed, status() reports no slot as active.
C3_CleanupLeavesAllInactive ==
  response.op = "cleanup_components" =>
    \A slot \in DOMAIN StatusMap(active_components) :
      StatusMap(active_components)[slot] = "inactive"

\* C4: when one stop or release call fails during cleanup(), the release of
\* every remaining active slot is still attempted: a slot that is active
\* after a failed cleanup is one whose release was called.
C4_CleanupAttemptsEverySlot ==
  (/\ response.op = "cleanup_components"
   /\ response.code # 200
   /\ response.calls # <<>>) =>
    \A i \in DOMAIN CleanupOrder :
      Active(CleanupOrder[i]) =>
        \E j \in DOMAIN response.calls :
          response.calls[j] = CleanupOrder[i] \o ".cleanup"

\* The slot a setup request fills.
TargetSlot(op) ==
  CASE op = "setup_llm" -> "llm"
    [] op = "setup_storage" -> "storage"
    [] op = "setup_memory" -> "memory"
    [] op = "setup_tool_manager" -> "tool"
    [] op = "setup_agent_factory" -> "factory"
    [] op = "setup_scheduler" -> "scheduler"

\* What a slot holds; None when the key is absent.
Held(d, slot) == IF slot \in DOMAIN d THEN d[slot] ELSE None

\* C5: a setup call that fails never partially commits: after the failure
\* the target slot holds what it held before the call.
C5_FailedSetupCommitsNothing ==
  [][\A op \in SetupOps :
       (response'.op = op /\ response'.code # 200 /\ Run(op)) =>
          Held(active_components', TargetSlot(op))
            = Held(active_components, TargetSlot(op))]_vars

\* C6: of two setup requests for the same slot that are in flight together,
\* at most one succeeds.
C6_AtMostOneSetupSucceeds ==
  [][\A c \in Clients :
       (Serve(c) /\ inflight[c].rival) => response'.code # 200]_vars

\* The execution ids the factories have issued.
IssuedIds == {x \in ExecutionIds : x + 1 \in DOMAIN execs}

\* C7: poll(x) for an execution id a successful submit returned, after
\* any later operations, answers 200 with a status of running, completed or
\* error, and never fails.
C7_PollTotal ==
  [][\A x \in IssuedIds :
       (response'.op = "get_agent_status" /\ get_agent_status(x)) =>
         /\ response'.code = 200
         /\ response'.body.status \in {"running", "completed", "error"}
         /\ response'.body.execution_id = x]_vars

\* A poll of an issued id answered with an error status after a cleanup
\* has cleared llm.
C7_Witness ==
  /\ response.op = "get_agent_status"
  /\ response.code = 200
  /\ response.body.status = "error"
  /\ response.body.execution_id \in IssuedIds
  /\ made["llm"] > 0
  /\ ~Active("llm")

\* C8: submit fails with 400 whenever no factory is active, without
\* calling a factory submit function; with a factory active whose submit
\* function returns an id, submit answers with exactly that id.
C8_SubmitNeedsFactory ==
  [][\A agent_id \in AgentIds, has_task \in BOOLEAN, submit \in Outcomes :
       (response'.op = "submit_agent"
          /\ submit_agent(agent_id, has_task, submit)) =>
         IF ~Active("factory")
         THEN /\ response'.code = 400
              /\ response'.calls = <<>>
              /\ execs' = execs
         ELSE (has_task /\ submit = NoExc) =>
                /\ response'.code = 200
                /\ Len(execs') = Len(execs) + 1
                /\ response'.body.execution_id + 1 = Len(execs')
                /\ execs'[Len(execs')].factory = active_components["factory"]
                /\ execs'[Len(execs')].st = "running"]_vars

\* A submission was accepted and answered with an execution id.
C8_Witness ==
  /\ response.op = "submit_agent"
  /\ response.code = 200
  /\ response.body.execution_id = 0
  /\ Len(execs) = 1

\* C9: with an active factory, poll(x) answers running exactly when the
\* await primitive returns None, completed with the value when it returns
\* one, and error with the exception's type name and message when it raises;
\* a running execution of the active factory polls as running and a
\* completed one as completed with its result.
C9_PollMapping ==
  [][\A x \in ExecutionIds :
       (/\ response'.op = "get_agent_status"
        /\ Active("factory")
        /\ get_agent_status(x)) =>
         LET awaited == AwaitExecution(active_components["factory"], x)
             body == response'.body
             own == x \in IssuedIds
                      /\ execs[x + 1].factory = active_components["factory"]
         IN /\ response'.code = 200
            /\ body.status = "running"
                 <=> (awaited.exc = NoExc /\ awaited.value = NoResult)
            /\ (awaited.exc = NoExc /\ awaited.value # NoResult) =>
                 (body.status = "completed" /\ body.result = awaited.value)
            /\ awaited.exc # NoExc =>
                 /\ body.status = "error"
                 /\ body.error.type = awaited.exc.type
                 /\ body.error.message = awaited.exc.msg
            /\ (own /\ execs[x + 1].st = "running") =>
                 body.status = "running"
            /\ (own /\ execs[x + 1].st = "completed") =>
                 /\ body.status = "completed"
                 /\ body.result = execs[x + 1].result]_vars

\* A poll answered completed with the second result value.
C9_Witness ==
  /\ response.op = "get_agent_status"
  /\ response.code = 200
  /\ response.body.status = "completed"
  /\ response.body.result = "r2"

\* The names of the inactive ones among llm, memory, storage, tool, in that
\* order.
C10_Inactive ==
  LET name(slot) == IF Active(slot) THEN <<>> ELSE <<slot>>
  IN name("llm") \o name("memory") \o name("storage") \o name("tool")

\* C10: a setup(scheduler) or setup(factory) rejected for missing
\* prerequisites names exactly the inactive ones among llm, memory, storage,
\* tool, in that order; with only llm and storage active it names
\* "memory, tool".
C10_MissingNamed ==
  (response.op \in {"setup_scheduler", "setup_agent_factory"}
     /\ response.code = 400) =>
    /\ C10_Inactive # <<>>
    /\ response.detail =
         "Missing required components: " \o Join(C10_Inactive, ", ")
    /\ (Active("llm") /\ Active("storage") /\ ~Active("memory")
          /\ ~Active("tool")) =>
         response.detail = "Missing required components: memory, tool"

\* setup(scheduler) was rejected with only llm and storage active.
C10_Witness ==
  /\ response.op = "setup_scheduler"
  /\ response.code = 400
  /\ response.detail = "Missing required components: memory, tool"
  /\ Active("llm") /\ Active("storage")

\* C11: status() is a pure read: it can be called in any state, changes no
\* slot, answers with the active / inactive value of every key of the
\* registry, and a second status() with no handler in between answers the
\* same map.
C11_StatusPureRead ==
  [][(response'.op = "get_status" /\ get_status) =>
       /\ active_components' = active_components
       /\ UNCHANGED <<made, scheduler_state, execs>>
       /\ response'.code = 200
       /\ DOMAIN response'.body = DOMAIN active_components
       /\ \A slot \in DOMAIN active_components :
            response'.body[slot] =
              IF active_components[slot] = None THEN "inactive" ELSE "active"
       /\ response.op = "get_status" => response'.body = response.body]_vars

\* status() was answered before any setup.
C11_Witness ==
  /\ response.op = "get_status"
  /\ response.code = 200
  /\ \A slot \in Slots : made[slot] = 0
  /\ response.body["llm"] = "inactive"

\* C12: route(envelope) with a query_type other than llm ends in an
\* explicit failure (500), never in a successful answer.
C12_UnsupportedQueryFails ==
  [][\A query_type \in QueryTypes \ {"llm"} :
       (response'.op = "handle_query" /\ handle_query(query_type, NoExc)) =>
          response'.code = 500]_vars

\* C13: with a hint that is a registered backend id, the adapter resolves
\* to that hint's backend for every model name, also when the name starts
\* with a prefix mapped to another backend: "gpt-4" with hint "ollama"
\* resolves to ollama.
C13_RegisteredHintWins ==
  (adapter.model # Unset
     /\ adapter.llm_backend \in {"openai", "google", "ollama", "vllm"}) =>
    /\ adapter.exc = NoExc
    /\ adapter.model = BACKEND_REGISTRY[adapter.llm_backend]
    /\ (adapter.llm_name = <<"g", "p", "t", "-", "4">>
          /\ adapter.llm_backend = "ollama") =>
         adapter.model = "OllamaBackend"

\* "gpt-4" with hint "ollama" has been resolved.
C13_Witness ==
  /\ adapter.llm_name = <<"g", "p", "t", "-", "4">>
  /\ adapter.llm_backend = "ollama"
  /\ adapter.model = "OllamaBackend"

\* The backend of the first prefix of the table the lowercased name starts
\* with; the default when there is none.
C14_ByName(llm_name) ==
  LET lowered == [i \in DOMAIN llm_name |->
                    CASE llm_name[i] = "G" -> "g"
                      [] llm_name[i] = "P" -> "p"
                      [] llm_name[i] = "T" -> "t"
                      [] OTHER -> llm_name[i]]
      starts(i) ==
        /\ Len(MODEL_PREFIX_MAP[i].prefix) <= Len(lowered)
        /\ \A k \in 1..Len(MODEL_PREFIX_MAP[i].prefix) :
             lowered[k] = MODEL_PREFIX_MAP[i].prefix[k]
  IN IF \E i \in DOMAIN MODEL_PREFIX_MAP : starts(i)
     THEN LET first == CHOOSE i \in DOMAIN MODEL_PREFIX_MAP :
                         /\ starts(i)
                         /\ \A j \in 1..(i - 1) : ~starts(j)
          IN BACKEND_REGISTRY[MODEL_PREFIX_MAP[first].backend]
     ELSE HfNativeLLM

\* C14: with no hint, or a hint that is not a registered backend id, the
\* resolution never raises and is decided by the model name alone: the
\* backend of the first prefix, in table order, that the lowercased name
\* starts with, the default backend when no prefix matches; an unregistered
\* hint gives what no hint gives.
C14_NameDecides ==
  (/\ adapter.model # Unset \/ adapter.exc # NoExc
   /\ adapter.llm_backend \notin {"openai", "google", "ollama", "vllm"}) =>
    /\ adapter.exc = NoExc
    /\ adapter.model = C14_ByName(adapter.llm_name)
    /\ adapter.model = ResolveModel(adapter.llm_name, HintNone).model

\* An upper-case name with both prefixes matching and an unregistered hint
\* has been resolved to the backend of the first prefix.
C14_Witness ==
  /\ adapter.llm_name = <<"G", "p">>
  /\ adapter.llm_backend = "bogus"
  /\ adapter.model = "OpenAIBackend"

\* The step is the handling of a cleanup request: it ends with the answer
\* of cleanup_components, and it is not an execution finishing or a request
\* arriving while an earlier cleanup's answer is the latest one.
CleanupHandled ==
  /\ response'.op = "cleanup_components"
  /\ UNCHANGED <<execs, inflight>>

\* The order the claim names, and the call that releases each slot.
C15_Order == <<"scheduler", "tool", "memory", "storage", "llm">>

C15_Call(slot) ==
  CASE slot = "scheduler" -> "scheduler.stop"
    [] slot = "tool" -> "tool.cleanup"
    [] slot = "memory" -> "memory.cleanup"
    [] slot = "storage" -> "storage.cleanup"
    [] slot = "llm" -> "llm.cleanup"

\* Where a release call stands in that order.
C15_Position(call) ==
  CHOOSE i \in DOMAIN C15_Order : C15_Call(C15_Order[i]) = call

\* The slot's release was called during the request just answered.
C15_Released(slot) ==
  \E j \in DOMAIN response'.calls : response'.calls[j] = C15_Call(slot)

\* The slot went from active to inactive in the step.
C15_Cleared(slot) == Active(slot) /\ ~ActiveNext(slot)

\* C15: within one cleanup() the calls are made in the order scheduler
\* (stop), tool, memory, storage, llm; a slot is released or cleared only
\* when every slot earlier in that order is inactive by then; and a
\* dependency of the scheduler is cleared only after scheduler.stop() was
\* called first and the scheduler that was active is stopped.
C15_FixedOrder ==
  [][CleanupHandled =>
       /\ \A j \in DOMAIN C15_Order :
            (C15_Released(C15_Order[j]) \/ C15_Cleared(C15_Order[j])) =>
               \A i \in 1..(j - 1) : ~ActiveNext(C15_Order[i])
       /\ \A m \in 1..(Len(response'.calls) - 1) :
            C15_Position(response'.calls[m])
              < C15_Position(response'.calls[m + 1])
       /\ \A j \in 2..Len(C15_Order) :
            C15_Cleared(C15_Order[j]) =>
              /\ response'.calls[1] = "scheduler.stop"
              /\ scheduler_state'[active_components["scheduler"]] = "stopped"
     ]_vars

\* A cleanup stopped the scheduler and released all four components.
C15_Witness ==
  /\ response.op = "cleanup_components"
  /\ response.code = 200
  /\ response.calls = <<"scheduler.stop", "tool.cleanup", "memory.cleanup",
                        "storage.cleanup", "llm.cleanup">>

\* C16: cleanup() invoked while the scheduler slot is inactive, the initial
\* state included, skips the scheduler, is not failed by it, and clears the
\* slots that are still active: with no release call raising, it answers
\* 200 and leaves tool, memory, storage and llm inactive.
C16_CleanupWithoutScheduler ==
  [][\A release \in [{"tool", "memory", "storage", "llm"} ->
                        {NoCleanup, NoExc}] :
       (/\ response'.op = "cleanup_components"
        /\ ~Active("scheduler")
        /\ cleanup_components(NoExc, release)) =>
          /\ response'.code = 200
          /\ \A slot \in {"tool", "memory", "storage", "llm"} :
               ~ActiveNext(slot)]_vars

\* C17: when a cleanup() has returned success, every scheduler that a
\* setup(scheduler) call started has been stopped.
C17_StartedSchedulersStopped ==
  (response.op = "cleanup_components" /\ response.code = 200) =>
    \A i \in DOMAIN scheduler_state : scheduler_state[i] # "started"

\* C18: the map status() returns has an entry for each of llm, storage,
\* memory, tool, scheduler and factory, each valued active or inactive,
\* in every state and so also before any setup.
C18_StatusCoversEverySlot ==
  response.op = "get_status" =>
    /\ {"llm", "storage", "memory", "tool", "scheduler", "factory"}
          \subseteq DOMAIN response.body
    /\ \A slot \in DOMAIN response.body :
         response.body[slot] \in {"active", "inactive"}

\* C19: in every state reached by setup and cleanup requests, failed
\* release calls included, an active scheduler has llm, memory, storage and
\* tool active, and an active memory has storage active.
C19_DependenciesHold ==
  /\ Active("scheduler") =>
       \A needed \in {"llm", "memory", "storage", "tool"} : Active(needed)
  /\ Active("memory") => Active("storage")

\* A cleanup stopped the scheduler, released tool and failed on memory:
\* memory is still active, and so is storage.
C19_Witness ==
  /\ response.op = "cleanup_components"
  /\ response.code = 500
  /\ response.calls = <<"scheduler.stop", "tool.cleanup", "memory.cleanup">>
  /\ ~Active("scheduler")
  /\ ~Active("tool")
  /\ Active("memory")
  /\ Active("storage")

\* C20: no request returns the factory slot to inactive: an active factory
\* is still active after every step, cleanup() leaves the slot holding what
\* it held, and a submit or poll made while the factory is active is never
\* answered with the 400 of the factory check.
C20_FactoryStaysActive ==
  [][/\ Active("factory") => ActiveNext("factory")
     /\ CleanupHandled =>
          /\ Held(active_components', "factory")
               = Held(active_components, "factory")
          /\ ("factory" \in DOMAIN active_components')
               = ("factory" \in DOMAIN active_components)
     /\ (/\ response'.op \in {"submit_agent", "get_agent_status"}
         /\ Active("factory")
         /\ RequestSubmit \/ RequestAgentStatus) =>
          response'.code # 400]_vars

\* A submission was accepted after a cleanup had cleared the scheduler and
\* its four dependencies.
C20_Witness ==
  /\ response.op = "submit_agent"
  /\ response.code = 200
  /\ Active("factory")
  /\ \A slot \in {"scheduler", "llm", "memory", "storage", "tool"} :
       ~Active(slot)

====
